---- MODULE Spec2Model ----
(***************************************************************************)
(* Model of keypad-and-card-reader.ino: setup(), then loop() calling       *)
(* readCard() and readKeypad() in turn.  Each handler is one action; the   *)
(* serial port, the card reader, the backlight pin and delay() are         *)
(* recorded as the sequence of events the handler produced.                *)
(*                                                                         *)
(* unsigned long values are pairs <<hi, lo>> of 16-bit half-words, so the  *)
(* 32-bit wrap of millis() is computed as the hardware computes it.        *)
(***************************************************************************)
EXTENDS Integers, Sequences, FiniteSets, TLC

(***************************************************************************)
(* Program constants.                                                      *)
(***************************************************************************)
MAX_KEY_COUNT == 20
MAX_KEY_DELAY == 10
BounceMillis == 1000
KeyHoldMillis == 50
FlushHoldMillis == 250
UidByteCount == 10
W16 == 65536
W8 == 256

NUL == "NUL"
NO_KEY == NUL
CR == "\r"
LF == "\n"
LOW == 0
HIGH == 1

(***************************************************************************)
(* unsigned long arithmetic on half-word pairs.                            *)
(***************************************************************************)
UL(n) == <<n \div W16, n % W16>>

\* a - b held at 0 when b is the larger.
ULSubClamped(a, b) ==
    IF a[1] < b[1] \/ (a[1] = b[1] /\ a[2] < b[2]) THEN <<0, 0>>
    ELSE LET lo == a[2] - b[2]
         IN  IF lo < 0 THEN <<a[1] - b[1] - 1, lo + W16>> ELSE <<a[1] - b[1], lo>>

\* a - b in unsigned long: the difference modulo 2^32.
ULSub(a, b) ==
    LET lo == a[2] - b[2]
        borrow == IF lo < 0 THEN 1 ELSE 0
    IN  <<(a[1] - b[1] - borrow + W16) % W16, (lo + W16) % W16>>

ULLess(a, b) == a[1] < b[1] \/ (a[1] = b[1] /\ a[2] < b[2])

\* int arithmetic of the AVR target: 16-bit two's complement.
Int16(n) == ((n + 32768) % W16) - 32768

(***************************************************************************)
(* Time.  clock is the time since power-up in ms, <<hi, lo>> with hi       *)
(* unbounded; the timer counter read by millis() holds its low 32 bits.    *)
(***************************************************************************)
TimeAdd(t, d) == <<t[1] + d[1] + ((t[2] + d[2]) \div W16), (t[2] + d[2]) % W16>>

\* t - s for s <= t, not reduced.
TimeSub(t, s) ==
    LET lo == t[2] - s[2]
    IN  IF lo < 0 THEN <<t[1] - s[1] - 1, lo + W16>> ELSE <<t[1] - s[1], lo>>

millis(t) == <<t[1] % W16, t[2]>>

(***************************************************************************)
(* Events a handler produces, in order.                                    *)
(***************************************************************************)
Tx(c) == [k |-> "tx", c |-> c, n |-> 0]
Halt == [k |-> "halt", c |-> "", n |-> 0]
Light(v) == [k |-> "light", c |-> "", n |-> v]
Delay(ms) == [k |-> "delay", c |-> "", n |-> ms]
PcdInit == [k |-> "init", c |-> "", n |-> 0]

HexChars == <<"0", "1", "2", "3", "4", "5", "6", "7",
              "8", "9", "A", "B", "C", "D", "E", "F">>

RECURSIVE HexDigits(_)
HexDigits(n) == IF n < 16 THEN <<HexChars[n + 1]>>
                ELSE HexDigits(n \div 16) \o <<HexChars[(n % 16) + 1]>>

\* Serial.print(s) for a character sequence s.
SerialPrint(s) == [i \in 1..Len(s) |-> Tx(s[i])]

\* Serial.print(n, HEX): the digits of n in base 16, no leading zeros.
SerialPrintHex(n) == SerialPrint(HexDigits(n))

\* A line ended by LF alone.
SerialPrintlnBare(s) == SerialPrint(s \o <<LF>>)

\* Serial.println(s): s followed by CR LF.
SerialPrintln(s) == SerialPrint(s \o <<CR, LF>>)

\* The characters of a C string held in array b: those before the first NUL.
CString(b) ==
    LET nuls == {i \in 1..Len(b) : b[i] = NUL}
        end == IF nuls = {} THEN Len(b) + 1
               ELSE CHOOSE i \in nuls : \A j \in nuls : i <= j
    IN  SubSeq(b, 1, end - 1)

RestartedMsg == <<"D", "E", "B", "U", "G", ":", "k", "e", "y", "p", "a", "d",
                  "-", "a", "n", "d", "-", "c", "a", "r", "d", "-", "r", "e",
                  "a", "d", "e", "r", " ", "r", "e", "s", "t", "a", "r", "t",
                  "e", "d", ".">>
CardEnabledMsg == <<"D", "E", "B", "U", "G", ":", "C", "a", "r", "d", " ",
                    "r", "e", "a", "d", "e", "r", " ", "e", "n", "a", "b",
                    "l", "e", "d", ".">>
KeypadEnabledMsg == <<"D", "E", "B", "U", "G", ":", "K", "e", "y", "p", "a",
                      "d", " ", "e", "n", "a", "b", "l", "e", "d", ".">>
NfcPrefix == <<"N", "F", "C", ":">>
KeysPrefix == <<"K", "E", "Y", "S", ":">>

(***************************************************************************)
(* MFRC522::Uid { byte size; byte uidByte[10]; byte sak; } and the byte-   *)
(* wise view memcmp and memcpy take of it.                                 *)
(***************************************************************************)
ZeroUid == [size |-> 0, uidByte |-> [i \in 1..UidByteCount |-> 0], sak |-> 0]

UidBytes(u) == <<u.size>> \o u.uidByte \o <<u.sak>>

UidOfBytes(b) == [size |-> b[1],
                  uidByte |-> SubSeq(b, 2, UidByteCount + 1),
                  sak |-> b[UidByteCount + 2]]

SizeofUid == UidByteCount + 2

\* memcmp(a, b, n) on byte sequences: 0 iff the first n bytes agree.
memcmp(a, b, n) ==
    LET diff == {i \in 1..n : a[i] # b[i]}
    IN  IF diff = {} THEN 0
        ELSE LET f == CHOOSE i \in diff : \A j \in diff : i <= j
             IN  IF a[f] < b[f] THEN -1 ELSE 1

\* memcpy(dst, src, n): the first n bytes of dst replaced by those of src.
memcpy(dst, src, n) == [i \in 1..Len(dst) |-> IF i <= n THEN src[i] ELSE dst[i]]

\* A card in the field: its identifier (size bytes) and SAK byte.
NoCard == [size |-> 0, bytes |-> <<>>, sak |-> 0]

\* mfrc522.uid after PICC_ReadCardSerial succeeded on card c: size, the first
\* size identifier bytes and sak are written, the other bytes are kept.
PICC_ReadCardSerial(u, c) ==
    [size |-> c.size,
     uidByte |-> [i \in 1..UidByteCount |->
                     IF i <= c.size THEN c.bytes[i] ELSE u.uidByte[i]],
     sak |-> c.sak]

\* The UID printed a byte at a time rather than a nibble at a time.
RECURSIVE PrintUidBytewise(_, _)
PrintUidBytewise(u, i) ==
    IF i >= u.size THEN <<>>
    ELSE SerialPrintHex(u.uidByte[i + 1]) \o PrintUidBytewise(u, (i + 1) % W8)

\* The UID of the card as the for loop of readCard prints it.
RECURSIVE PrintUid(_, _)
PrintUid(u, i) ==
    IF i >= u.size THEN <<>>
    ELSE SerialPrintHex(u.uidByte[i + 1] \div 16)
         \o SerialPrintHex(u.uidByte[i + 1] % 16)
         \o PrintUid(u, (i + 1) % W8)

\* The bounce test on the identifier bytes alone, without the size byte that
\* stands before them in the struct.
IsBounceOfUidBytes(last, u, now, lastMillis) ==
    /\ memcmp(last.uidByte, u.uidByte, u.size) = 0
    /\ ULLess(ULSub(now, lastMillis), UL(BounceMillis))

\* The bounce test with the window closed at both ends.
IsBounceInclusive(last, u, now, lastMillis) ==
    /\ memcmp(UidBytes(last), UidBytes(u), u.size) = 0
    /\ ~ULLess(UL(BounceMillis), ULSub(now, lastMillis))

\* The bounce test of readCard.
IsBounce(last, u, now, lastMillis) ==
    /\ memcmp(UidBytes(last), UidBytes(u), u.size) = 0
    /\ ULLess(ULSub(now, lastMillis), UL(BounceMillis))

\* The terminator test with the wrong key of the bottom row.
IsTerminatorStar(key) == key = "*"

\* The terminator test of readKeypad.
IsTerminator(key) == key = "#"

\* The capacity test off by one, and left out.
HasRoomInclusive(n) == n <= MAX_KEY_COUNT

HasRoomAlways(n) == n >= 0

\* The capacity test of readKeypad.
HasRoom(n) == n < MAX_KEY_COUNT

\* buffer[count] = 0 and buffer[count] = key; a write past the array is
\* recorded by the handler and leaves the array as it was.
TerminateSkipped(b, n) == b

TerminateOneOn(b, n) == [b EXCEPT ![n + 2] = NUL]

Terminate(b, n) == [b EXCEPT ![n + 1] = NUL]

Store(b, n, key) == [b EXCEPT ![n + 1] = key]

\* The stale-buffer test met at the limit itself.
IsStaleInclusive(count, now, lastMillis) ==
    /\ count # 0
    /\ ~ULLess(ULSub(now, lastMillis), UL(Int16(1000 * MAX_KEY_DELAY)))

\* The stale-buffer test with a limit ten times too long.
IsStaleTenfold(count, now, lastMillis) ==
    /\ count # 0
    /\ ULLess(UL(10000 * MAX_KEY_DELAY), ULSub(now, lastMillis))

\* The stale-buffer test of readKeypad.
IsStale(count, now, lastMillis) ==
    /\ count # 0
    /\ ULLess(UL(Int16(1000 * MAX_KEY_DELAY)), ULSub(now, lastMillis))

\* The two early returns of readCard: the poll goes on iff a new card is
\* present and its serial was read.  First the test without the second return.
CardAnsweredUnread(present, ok) == present

CardAnswered(present, ok) == present /\ ok

\* What readCard does to the reader and the serial port for a bounce and for
\* a card it accepts.  First the bounce branch without its PICC_HaltA.
BounceEventsUnhalted == <<>>

BounceEvents == <<Halt>>

AcceptEvents(u) ==
    SerialPrint(NfcPrefix) \o PrintUid(u, 0) \o SerialPrintln(<<>>) \o <<Halt>>

\* The statics of readCard when it returns after reading card u at now.
\* First with lastMillis recorded in the bounce branch too.
CardStaticsRestamped(bounce, last, lastMillis, u, now) ==
    [lastUid |-> IF bounce THEN last
                 ELSE UidOfBytes(memcpy(UidBytes(last), UidBytes(u), SizeofUid)),
     lastMillis |-> now]

CardStatics(bounce, last, lastMillis, u, now) ==
    IF bounce THEN [lastUid |-> last, lastMillis |-> lastMillis]
    ELSE [lastUid |-> UidOfBytes(memcpy(UidBytes(last), UidBytes(u), SizeofUid)),
          lastMillis |-> now]

\* lastMillis of readKeypad when a poll that read a key returns at time end,
\* after branch "flush", "store" or "drop".  First with the assignment made
\* only where the backlight is switched.
StampAfterFlash(branch, end, lastMillis) ==
    IF branch = "drop" THEN lastMillis ELSE millis(end)

StampAfter(branch, end, lastMillis) == millis(end)

\* The build: which of DISABLE_CARD_READER and DISABLE_KEYPAD are left
\* undefined.  The source defines neither.
Builds == [card : BOOLEAN, keypad : BOOLEAN]
AsShipped == [card |-> TRUE, keypad |-> TRUE]

\* What setup() does, in order.  First with the keypad's line outside its
\* #ifndef.
SetupEventsUnguarded(b) ==
    SerialPrintln(RestartedMsg)
    \o (IF b.card THEN <<PcdInit>> \o SerialPrintln(CardEnabledMsg) ELSE <<>>)
    \o (IF b.keypad THEN <<Light(HIGH)>> ELSE <<>>)
    \o SerialPrintln(KeypadEnabledMsg)

SetupEvents(b) ==
    SerialPrintln(RestartedMsg)
    \o (IF b.card THEN <<PcdInit>> \o SerialPrintln(CardEnabledMsg) ELSE <<>>)
    \o (IF b.keypad THEN <<Light(HIGH)>> \o SerialPrintln(KeypadEnabledMsg)
        ELSE <<>>)

\* What runs after h returns: loop() calls readCard and then readKeypad, each
\* if built in, and is called again when it returns.  First a loop that
\* leaves after readCard.
NextHandlerCardOnly(b, h) ==
    IF b.card THEN "readCard" ELSE IF b.keypad THEN "readKeypad" ELSE "loop"

NextHandler(b, h) ==
    IF h = "readCard" /\ b.keypad THEN "readKeypad"
    ELSE IF b.card THEN "readCard"
    ELSE IF b.keypad THEN "readKeypad"
    ELSE "loop"

VARIABLES
    build,          \* which peripherals are compiled in
    pc,             \* "setup", "readCard", "readKeypad" or "loop" (a loop()
                    \* with nothing in it): what runs next
    clock,          \* time since power-up when the last handler returned
    uid,            \* mfrc522.uid
    lastUid,        \* readCard: static lastUid
    cardLastMillis, \* readCard: static lastMillis
    buffer,         \* readKeypad: static buffer[MAX_KEY_COUNT + 1]
    count,          \* readKeypad: static count
    keyLastMillis,  \* readKeypad: static lastMillis
    backlight,      \* level of BACKLIGHT_PIN
    io,             \* events produced by the last handler, in order
    accepted,       \* history: <<last, one before last>> NFC line: card, time
    suppressed,     \* history: the last card read was held back as a bounce
    failed,         \* history: the card whose serial could not be read, with
                    \*          no card read since
    stampedAt,      \* history: when keyLastMillis was last recorded
    readAt,         \* history: when getKey last returned a key
    typed,          \* history: keys other than '#' read since the last '#'
                    \*          or idle gap, whichever is later
    gapped,         \* history: an idle gap cut the entry since the last '#'
    ev              \* history: the last handler, its inputs and what it saw

vars == <<build, pc, clock, uid, lastUid, cardLastMillis, buffer, count,
          keyLastMillis, backlight, io, accepted, suppressed, failed,
          stampedAt, readAt, typed, gapped, ev>>

cardVars == <<uid, lastUid, cardLastMillis, accepted, suppressed, failed>>
keyVars == <<buffer, count, keyLastMillis, backlight, stampedAt, readAt, typed,
            gapped>>

NoAccept == [card |-> NoCard, at |-> UL(0)]

NoEv == [h |-> "none", present |-> FALSE, ok |-> FALSE, card |-> NoCard,
         key |-> NO_KEY, at |-> UL(0), prev |-> <<NoAccept, NoAccept>>,
         suppressed |-> FALSE, failed |-> NoCard,
         stamped |-> UL(0), read |-> UL(0), typed0 |-> <<>>, typed |-> <<>>, gapped |-> FALSE, gap |-> FALSE,
         count0 |-> 0, count |-> 0, buffer |-> <<>>, widx |-> -1]

\* The state at power-up of build b.
Power(b) ==
    /\ build = b
    /\ pc = "setup"
    /\ clock = UL(0)
    /\ uid = ZeroUid
    /\ lastUid = ZeroUid
    /\ cardLastMillis = UL(0)
    /\ buffer = [i \in 1..(MAX_KEY_COUNT + 1) |-> NUL]
    /\ count = 0
    /\ keyLastMillis = UL(0)
    /\ backlight = LOW
    /\ io = <<>>
    /\ accepted = <<NoAccept, NoAccept>>
    /\ suppressed = FALSE
    /\ failed = NoCard
    /\ stampedAt = UL(0)
    /\ readAt = UL(0)
    /\ typed = <<>>
    /\ gapped = FALSE
    /\ ev = NoEv

Init == Power(AsShipped)

(***************************************************************************)
(* setup()                                                                 *)
(***************************************************************************)
Setup ==
    /\ pc = "setup"
    /\ io' = SetupEvents(build)
    /\ backlight' = IF build.keypad THEN HIGH ELSE backlight
    /\ pc' = NextHandler(build, "setup")
    /\ ev' = [NoEv EXCEPT !.h = "setup"]
    /\ UNCHANGED <<build, clock, buffer, count, keyLastMillis, stampedAt,
                   readAt, typed, gapped>>
    /\ UNCHANGED cardVars

(***************************************************************************)
(* loop() of a build with neither peripheral.                              *)
(***************************************************************************)
EmptyLoop ==
    /\ pc = "loop"
    /\ pc' = NextHandler(build, "loop")
    /\ io' = <<>>
    /\ ev' = [NoEv EXCEPT !.h = "loop"]
    /\ UNCHANGED <<build, clock, backlight>>
    /\ UNCHANGED <<buffer, count, keyLastMillis, stampedAt, readAt, typed, gapped>>
    /\ UNCHANGED cardVars

(***************************************************************************)
(* readCard().  dt is the time since the previous handler returned;        *)
(* present and ok are the answers of PICC_IsNewCardPresent and             *)
(* PICC_ReadCardSerial, card the card that answered.                       *)
(***************************************************************************)
ReadCard(dt, present, ok, card) ==
    /\ pc = "readCard"
    /\ pc' = NextHandler(build, "readCard")
    /\ LET t == TimeAdd(clock, dt)
           now == millis(t)
           u == PICC_ReadCardSerial(uid, card)
           e == [NoEv EXCEPT !.h = "readCard", !.present = present,
                             !.ok = present /\ ok,
                             !.card = IF present /\ ok THEN card ELSE NoCard,
                             !.at = t, !.prev = accepted,
                             !.suppressed = suppressed, !.failed = failed]
       IN  /\ clock' = t
           /\ ev' = e
           /\ IF ~CardAnswered(present, ok)
              THEN /\ io' = <<>>
                   /\ failed' = IF present THEN card ELSE failed
                   /\ UNCHANGED <<uid, lastUid, cardLastMillis, accepted,
                                  suppressed>>
              ELSE LET bounce == IsBounce(lastUid, u, now, cardLastMillis)
                       st == CardStatics(bounce, lastUid, cardLastMillis, u, now)
                   IN  /\ uid' = u
                       /\ io' = IF bounce THEN BounceEvents ELSE AcceptEvents(u)
                       /\ lastUid' = st.lastUid
                       /\ cardLastMillis' = st.lastMillis
                       /\ accepted' = IF bounce THEN accepted
                                      ELSE <<[card |-> card, at |-> t], accepted[1]>>
                       /\ suppressed' = bounce
                       /\ failed' = NoCard
    /\ UNCHANGED keyVars
    /\ UNCHANGED build

(***************************************************************************)
(* readKeypad().  dt is the time since the previous handler returned, key  *)
(* the answer of keypad.getKey().                                          *)
(***************************************************************************)
ReadKeypad(dt, key) ==
    /\ pc = "readKeypad"
    /\ pc' = NextHandler(build, "readKeypad")
    /\ LET t == TimeAdd(clock, dt)
           n == IF IsStale(count, millis(t), keyLastMillis) THEN 0 ELSE count
           gap == /\ typed # <<>>
                  /\ ULLess(UL(1000 * MAX_KEY_DELAY), TimeSub(t, stampedAt))
           ty == IF gap THEN <<>> ELSE typed
           e == [NoEv EXCEPT !.h = "readKeypad", !.key = key, !.at = t,
                             !.stamped = stampedAt, !.read = readAt,
                             !.typed0 = typed, !.typed = ty,
                             !.gapped = gapped \/ gap, !.gap = gap,
                             !.count0 = count, !.count = n, !.buffer = buffer]
       IN  IF key = NO_KEY
           THEN /\ count' = n
                /\ clock' = t
                /\ io' = <<>>
                /\ typed' = ty
                /\ gapped' = (gapped \/ gap)
                /\ ev' = e
                /\ UNCHANGED <<buffer, keyLastMillis, backlight, stampedAt, readAt>>
           ELSE IF IsTerminator(key)
           THEN LET b == Terminate(buffer, n)
                    end == TimeAdd(t, UL(FlushHoldMillis))
                IN  /\ buffer' = b
                    /\ io' = <<Light(LOW)>> \o SerialPrint(KeysPrefix)
                             \o SerialPrintln(CString(b))
                             \o <<Delay(FlushHoldMillis), Light(HIGH)>>
                    /\ count' = 0
                    /\ backlight' = HIGH
                    /\ clock' = end
                    /\ keyLastMillis' = StampAfter("flush", end, keyLastMillis)
                    /\ stampedAt' = end
                    /\ readAt' = t
                    /\ typed' = <<>>
                    /\ gapped' = FALSE
                    /\ ev' = [e EXCEPT !.widx = n]
           ELSE IF HasRoom(n)
           THEN LET end == TimeAdd(t, UL(KeyHoldMillis))
                IN  /\ buffer' = Store(buffer, n, key)
                    /\ count' = (n + 1) % W8
                    /\ io' = <<Light(LOW), Delay(KeyHoldMillis), Light(HIGH)>>
                    /\ backlight' = HIGH
                    /\ clock' = end
                    /\ keyLastMillis' = StampAfter("store", end, keyLastMillis)
                    /\ stampedAt' = end
                    /\ readAt' = t
                    /\ typed' = Append(ty, key)
                    /\ gapped' = (gapped \/ gap)
                    /\ ev' = [e EXCEPT !.widx = n]
           ELSE /\ count' = n
                /\ io' = <<>>
                /\ clock' = t
                /\ keyLastMillis' = StampAfter("drop", t, keyLastMillis)
                /\ stampedAt' = t
                /\ readAt' = t
                /\ typed' = Append(ty, key)
                /\ gapped' = (gapped \/ gap)
                /\ ev' = e
                /\ UNCHANGED <<buffer, backlight>>
    /\ UNCHANGED cardVars
    /\ UNCHANGED build

(***************************************************************************)
(* The inputs explored.                                                    *)
(***************************************************************************)
Card(bytes, sak) == [size |-> Len(bytes), bytes |-> bytes, sak |-> sak]

CardA == Card(<<234, 53, 137, 46>>, 8)
CardLast == Card(<<234, 53, 137, 47>>, 8)
CardFirst == Card(<<10, 53, 137, 46>>, 8)
CardMid == Card(<<234, 0, 137, 46>>, 8)
CardLong == Card(<<234, 53, 137, 46, 255, 1, 160>>, 0)

\* What a readCard poll may meet: no card, a card of unread whose serial
\* cannot be read, a card of cards whose serial is read.
CardInputs(cards, unread) ==
    {<<FALSE, FALSE, NoCard>>}
    \cup {<<TRUE, FALSE, c>> : c \in unread}
    \cup {<<TRUE, TRUE, c>> : c \in cards}

\* The time explored: the first boot ms after power-up, and the ms from
\* time from up to time to.
InWindow(t, boot, from, to) ==
    \/ ULLess(t, UL(boot))
    \/ ~ULLess(t, from) /\ ULLess(t, to)

\* Card reader: a card, three that differ from it in the last, the first and a
\* middle byte and a longer one that starts with it; polls 0, 600, 999 or
\* 1000 ms apart.
CardHorizon == 2500
CardGaps == {UL(0), UL(600), UL(999), UL(1000)}
CardCards == {CardA, CardLast, CardFirst, CardMid, CardLong}

NextCard ==
    \/ Setup
    \/ \E dt \in CardGaps, c \in CardInputs(CardCards, {CardA}) :
          /\ ReadCard(dt, c[1], c[2], c[3])
          /\ InWindow(clock', CardHorizon, UL(0), UL(0))
    \/ \E dt \in CardGaps :
          /\ ReadKeypad(dt, NO_KEY)
          /\ InWindow(clock', CardHorizon, UL(0), UL(0))

SpecCard == Init /\ [][NextCard]_vars

\* Keypad: entries of up to MaxTyped keys, '*' among the first StarsUpTo of
\* an entry, typed without pause but for pauses of 10 000 or 10 001 ms that
\* start in the first PauseBy ms or with the buffer full.
KeysHorizon == 1400
PauseBy == 101
MaxTyped == 22
StarsUpTo == 2
KeysGaps == {UL(0), UL(1000 * MAX_KEY_DELAY), UL(1000 * MAX_KEY_DELAY + 1)}
KeysKeys == {NO_KEY, "1", "*", "#"}

NextKeys ==
    \/ Setup
    \/ ReadCard(UL(0), FALSE, FALSE, NoCard)
    \/ \E dt \in KeysGaps, key \in KeysKeys :
          /\ dt # UL(0) => ULLess(clock, UL(PauseBy)) \/ count = MAX_KEY_COUNT
          /\ key = "*" => Len(typed) < StarsUpTo
          /\ ReadKeypad(dt, key)
          /\ InWindow(clock', KeysHorizon, UL(1000 * MAX_KEY_DELAY),
                      UL(1000 * MAX_KEY_DELAY + KeysHorizon))
          /\ Len(typed') <= MaxTyped

SpecKeys == Init /\ [][NextKeys]_vars

\* Hex output: the first card read after power-up, of 4, 7 or 10 bytes, each
\* byte value at each position, and the identifiers of zeros only.
HexHorizon == 1001
HexCards == {Card([i \in 1..n |-> (b + 17 * (i - 1)) % W8], 8) :
                b \in 0..(W8 - 1), n \in {4, 7, 10}}
            \cup {Card([i \in 1..n |-> 0], 0) : n \in {4, 7, 10}}

NextHex ==
    \/ Setup
    \/ \E dt \in {UL(0), UL(BounceMillis)}, c \in CardInputs(HexCards, {CardA}) :
          /\ uid = ZeroUid
          /\ ReadCard(dt, c[1], c[2], c[3])
          /\ InWindow(clock', HexHorizon, UL(0), UL(0))
    \/ ReadKeypad(UL(0), NO_KEY)

SpecHex == Init /\ [][NextHex]_vars

\* Both devices: one card, the keys 1 and #, entries of up to MaxEntry keys,
\* polls 0 or 1000 ms apart.
Horizon == 1300
MaxEntry == 2
Cards == {CardA}
Keys == {NO_KEY, "1", "#"}
Gaps == {UL(0), UL(BounceMillis)}

Next ==
    \/ Setup
    \/ \E dt \in Gaps, c \in CardInputs(Cards, Cards) :
          /\ ReadCard(dt, c[1], c[2], c[3])
          /\ InWindow(clock', Horizon, UL(0), UL(0))
    \/ \E dt \in Gaps, key \in Keys :
          /\ ReadKeypad(dt, key)
          /\ InWindow(clock', Horizon, UL(0), UL(0))
          /\ Len(typed') <= MaxEntry

Spec == Init /\ [][Next]_vars

\* loop() called again whenever it has returned: one card, the keys 1 and
\* #, entries of up to LiveEntry keys, polls 0 or 250 ms apart until
\* LiveHorizon ms after power-up and without pause from then on.
LiveHorizon == 600
LiveEntry == 1
LiveGaps == {UL(0), UL(FlushHoldMillis)}

NextLive ==
    \/ Setup
    \/ \E dt \in LiveGaps, c \in CardInputs(Cards, Cards) :
          /\ ReadCard(dt, c[1], c[2], c[3])
          /\ InWindow(clock', LiveHorizon, UL(0), UL(0))
    \/ \E dt \in LiveGaps, key \in Keys :
          /\ ReadKeypad(dt, key)
          /\ InWindow(clock', LiveHorizon, UL(0), UL(0))
          /\ Len(typed') <= LiveEntry

SpecLive == Init /\ [][NextLive]_vars /\ WF_vars(NextLive)

\* Every build: the inputs above, with either, both or neither peripheral
\* compiled in.
InitBuild == \E b \in Builds : Power(b)

NextBuild ==
    \/ Setup
    \/ EmptyLoop
    \/ \E dt \in Gaps, c \in CardInputs(Cards, Cards) :
          /\ ReadCard(dt, c[1], c[2], c[3])
          /\ InWindow(clock', Horizon, UL(0), UL(0))
    \/ \E dt \in Gaps, key \in Keys :
          /\ ReadKeypad(dt, key)
          /\ InWindow(clock', Horizon, UL(0), UL(0))
          /\ Len(typed') <= MaxEntry

SpecBuild == InitBuild /\ [][NextBuild]_vars

\* Around the first wrap of millis(): after power-up the device idles, with
\* no card and no key, until WrapLead ms before the wrap.  Then one card and
\* the key 1: readCard 0, 999 or 1000 ms after the handler before it, up to
\* WrapPost ms after the wrap; readKeypad 0, 10 000 or 10 001 ms after the
\* handler before it; all of it within WrapTail ms of the long pause.
WrapLead == 500
WrapPost == 600
WrapTail == 100
WrapEntry == 2
WrapStart == <<W16 - 1, W16 - WrapLead>>
WrapEnd == TimeAdd(<<W16, 0>>, UL(WrapPost + 1000 * MAX_KEY_DELAY + 1 + WrapTail))
WrapCardGaps == {UL(0), UL(BounceMillis - 1), UL(BounceMillis)}
WrapKeyGaps == {UL(0), UL(1000 * MAX_KEY_DELAY), UL(1000 * MAX_KEY_DELAY + 1)}

NextWrap ==
    \/ Setup
    \/ /\ clock = UL(0)
       /\ ReadCard(WrapStart, FALSE, FALSE, NoCard)
    \/ \E dt \in WrapCardGaps, c \in CardInputs({CardA}, {CardA}) :
          /\ ReadCard(dt, c[1], c[2], c[3])
          /\ InWindow(clock', 0, WrapStart, WrapEnd)
          /\ dt # UL(0) => ULLess(clock', TimeAdd(<<W16, 0>>, UL(WrapPost)))
    \/ \E dt \in WrapKeyGaps, key \in {NO_KEY, "1"} :
          /\ ReadKeypad(dt, key)
          /\ InWindow(clock', 0, WrapStart, WrapEnd)
          /\ Len(typed') <= WrapEntry

SpecWrap == Init /\ [][NextWrap]_vars

(***************************************************************************)
(* What the claims speak of.                                               *)
(***************************************************************************)
\* The bytes the last handler wrote to the serial port.
RECURSIVE SerialOf(_)
SerialOf(es) ==
    IF es = <<>> THEN <<>>
    ELSE (IF Head(es).k = "tx" THEN <<Head(es).c>> ELSE <<>>) \o SerialOf(Tail(es))

Serial == SerialOf(io)

HexSet == {HexChars[i] : i \in 1..16}
HexVal(c) == (CHOOSE i \in 1..16 : HexChars[i] = c) - 1

HexDecode(v) == [i \in 1..(Len(v) \div 2) |-> 16 * HexVal(v[2 * i - 1]) + HexVal(v[2 * i])]

RECURSIVE HexOf(_)
HexOf(bytes) ==
    IF bytes = <<>> THEN <<>>
    ELSE <<HexChars[(Head(bytes) \div 16) + 1], HexChars[(Head(bytes) % 16) + 1]>>
         \o HexOf(Tail(bytes))

NfcLine(c) == NfcPrefix \o HexOf(c.bytes) \o <<CR, LF>>
KeysLine(ks) == KeysPrefix \o ks \o <<CR, LF>>

\* The last handler was a readCard that read a card's serial.
CardRead == ev.h = "readCard" /\ ev.ok

\* True time from the last NFC line before this poll to this poll.
SinceAccepted == TimeSub(ev.at, ev.prev[1].at)

\* C1: a successful read of an identifier that differs from the last accepted
\* one (in length or in any byte) emits the NFC line of the identifier read,
\* whatever the time since the last one was accepted.
C1_DifferentCardEmits ==
    (CardRead /\ ev.prev[1].card # NoCard /\ ev.card.bytes # ev.prev[1].card.bytes)
        => Serial = NfcLine(ev.card)

\* C2, as stated: a successful read of A less than 1000 ms after an NFC line
\* for A emits nothing, whatever was accepted in between.
C2_AnyEarlierLine ==
    CardRead =>
        \A i \in 1..2 :
            (/\ ev.prev[i].card = ev.card
             /\ ULLess(TimeSub(ev.at, ev.prev[i].at), UL(BounceMillis)))
                => Serial = <<>>

\* C2, amended: when the last NFC line was for A, at t0, a successful read of
\* A at t emits nothing if t - t0 < 1000 ms and emits the NFC line of A if
\* 1000 ms <= t - t0 < 2^32 ms.
C2_BounceWindow ==
    (CardRead /\ ev.prev[1].card = ev.card) =>
        IF ULLess(SinceAccepted, UL(BounceMillis))
        THEN Serial = <<>> /\ accepted = ev.prev
        ELSE SinceAccepted[1] < W16
                => Serial = NfcLine(ev.card) /\ accepted[1] = [card |-> ev.card, at |-> ev.at]

\* C2 witness: A was emitted twice, 1000 ms or more apart, and a read of A
\* inside the second window has just been suppressed.
C2_Witness ==
    /\ CardRead /\ ev.prev[1].card = ev.card /\ ev.prev[2].card = ev.card
    /\ ~ULLess(TimeSub(ev.prev[1].at, ev.prev[2].at), UL(BounceMillis))
    /\ ULLess(UL(0), SinceAccepted)
    /\ ULLess(SinceAccepted, UL(BounceMillis))
    /\ Serial = <<>>

\* The last handler was a readKeypad; it read a key; the key was not '#'.
KeyPoll == ev.h = "readKeypad"
KeyRead == KeyPoll /\ ev.key # NO_KEY
PlainKeyRead == KeyRead /\ ev.key # "#"

First(s, n) == SubSeq(s, 1, IF Len(s) < n THEN Len(s) ELSE n)

\* C3: from an empty buffer, k <= 20 keys other than '#' read with no idle
\* timeout in between emit nothing, and the '#' read after them emits the one
\* line KEYS:<those k keys in order> and leaves count = 0.
C3_EntryFlushed ==
    /\ (PlainKeyRead /\ ~ev.gapped /\ Len(ev.typed) < MAX_KEY_COUNT)
           => /\ Serial = <<>>
              /\ count = Len(ev.typed) + 1
    /\ (KeyPoll /\ ev.key = "#" /\ ~ev.gapped /\ Len(ev.typed) <= MAX_KEY_COUNT)
           => /\ Serial = KeysLine(ev.typed)
              /\ count = 0

\* C3 witness: '#' flushed an entry with a '*' in it that is shorter than the
\* one before it, whose next key was still in the array.
C3_Witness ==
    /\ KeyPoll /\ ev.key = "#" /\ ~ev.gapped
    /\ Len(ev.typed) \in 2..(MAX_KEY_COUNT - 1)
    /\ \E i \in 1..Len(ev.typed) : ev.typed[i] = "*"
    /\ ev.buffer[Len(ev.typed) + 1] # NUL
    /\ Serial = KeysLine(ev.typed)

\* C4: with more than 20 keys read before '#' and no idle timeout, each key
\* after the 20th produces nothing and leaves buffer and count as they were,
\* and '#' emits KEYS:<the first 20 keys in order>.
C4_OverflowDropped ==
    /\ (PlainKeyRead /\ ~ev.gapped /\ Len(ev.typed) >= MAX_KEY_COUNT)
           => /\ io = <<>>
              /\ buffer = ev.buffer
              /\ count = MAX_KEY_COUNT /\ ev.count0 = MAX_KEY_COUNT
              /\ First(buffer, MAX_KEY_COUNT) = First(ev.typed, MAX_KEY_COUNT)
    /\ (KeyPoll /\ ev.key = "#" /\ ~ev.gapped /\ Len(ev.typed) > MAX_KEY_COUNT)
           => Serial = KeysLine(First(ev.typed, MAX_KEY_COUNT))

\* C4 witness: '#' read after 22 keys, the first of them a '*'.
C4_Witness ==
    /\ KeyPoll /\ ev.key = "#" /\ ~ev.gapped
    /\ Len(ev.typed) = MAX_KEY_COUNT + 2
    /\ ev.typed[1] = "*"
    /\ Serial = KeysLine(First(ev.typed, MAX_KEY_COUNT))

\* C5, as stated: a key read 10 000 ms or more after the previous key was
\* read, with keys in the buffer and no '#' in between, finds them discarded.
C5_TenSecondsOrMore ==
    (/\ KeyRead /\ ev.typed0 # <<>>
     /\ ~ULLess(TimeSub(ev.at, ev.read), UL(1000 * MAX_KEY_DELAY)))
        => IF ev.key = "#" THEN Serial = KeysLine(<<>>)
           ELSE count = 1 /\ buffer[1] = ev.key

\* C5, amended: when more than 10 000 ms pass between the end of the poll in
\* which a key was read (after its hold, where lastMillis is recorded) and a
\* later poll, with no '#' in between, that poll discards the keys in the
\* buffer, and the next '#' emits KEYS:<the keys read after the gap> (the
\* first 20 of them).
C5_IdleGapDiscards ==
    /\ (KeyPoll /\ ev.gap) => ev.count0 > 0 /\ ev.count = 0
    /\ (KeyPoll /\ ev.key = "#" /\ ev.gapped)
           => Serial = KeysLine(First(ev.typed, MAX_KEY_COUNT))

\* C5 witness: '#' read after a key that was read after the gap.
C5_Witness ==
    /\ KeyPoll /\ ev.key = "#" /\ ev.gapped /\ ~ev.gap
    /\ Len(ev.typed) = 1
    /\ Serial = KeysLine(ev.typed)

\* The bytes are one complete KEYS line.
IsKeysLine(b) ==
    /\ Len(b) >= Len(KeysPrefix) + 2
    /\ First(b, Len(KeysPrefix)) = KeysPrefix
    /\ b[Len(b) - 1] = CR /\ b[Len(b)] = LF
    /\ \A i \in 1..(Len(b) - 2) : b[i] \notin {CR, LF}

\* C6: a readKeypad poll writes to the serial port iff the key it read is
\* '#', and then writes exactly one KEYS line.
C6_LineIffTerminator ==
    KeyPoll => /\ (ev.key = "#") <=> (Serial # <<>>)
               /\ (ev.key = "#") => IsKeysLine(Serial)

\* C6 witness: a poll that read no key cleared a non-empty buffer on idle
\* timeout and wrote nothing.
C6_Witness ==
    /\ KeyPoll /\ ev.key = NO_KEY
    /\ ev.count0 > 0 /\ count = 0
    /\ Serial = <<>>

\* C9: count stays in 0..20 and every index readKeypad writes at is inside
\* buffer[0..20].
C9_CountInBounds ==
    /\ count \in 0..MAX_KEY_COUNT
    /\ ev.widx \in -1..MAX_KEY_COUNT

\* C9 witness: '#' wrote the terminator at index 20 of a full buffer.
C9_Witness ==
    /\ KeyPoll /\ ev.key = "#"
    /\ ev.count = MAX_KEY_COUNT /\ ev.widx = MAX_KEY_COUNT

\* The value of a line: what stands between its 4-character prefix and CR LF.
NfcValue(b) == SubSeq(b, Len(NfcPrefix) + 1, Len(b) - 2)

\* C7: the value of the NFC line of an accepted identifier of L bytes has
\* 2L characters, all of 0-9A-F, those at 2i and 2i+1 (counted from 0) the
\* high and the low nibble of byte i, and decodes to the identifier.
C7_HexRoundTrip ==
    (CardRead /\ Serial # <<>>) =>
        LET v == NfcValue(Serial)
            id == ev.card.bytes
        IN  /\ First(Serial, Len(NfcPrefix)) = NfcPrefix
            /\ SubSeq(Serial, Len(Serial) - 1, Len(Serial)) = <<CR, LF>>
            /\ Len(v) = 2 * Len(id)
            /\ \A i \in 1..Len(v) : v[i] \in HexSet
            /\ \A i \in 1..Len(id) :
                   /\ v[2 * i - 1] = HexChars[(id[i] \div 16) + 1]
                   /\ v[2 * i] = HexChars[(id[i] % 16) + 1]
            /\ HexDecode(v) = id

\* C7 witness: a 10-byte identifier with a byte below 0x10 and a byte above
\* 0xEF was accepted and printed.
C7_Witness ==
    /\ CardRead /\ Serial # <<>>
    /\ ev.card.size = 10
    /\ \E i \in 1..10 : ev.card.bytes[i] < 16
    /\ \E i \in 1..10 : ev.card.bytes[i] > 239
    /\ Len(NfcValue(Serial)) = 20

Prefixes == {<<"D", "E", "B", "U", "G", ":">>, NfcPrefix, KeysPrefix}

\* The bytes are complete lines: each starts with DEBUG:, NFC: or KEYS: and
\* runs to the first CR, which an LF follows.
RECURSIVE CompleteLines(_)
CompleteLines(b) ==
    \/ b = <<>>
    \/ LET ends == {i \in 1..Len(b) : b[i] \in {CR, LF}}
       IN  /\ ends # {}
           /\ LET e == CHOOSE i \in ends : \A j \in ends : i <= j
              IN  /\ b[e] = CR
                  /\ e < Len(b) /\ b[e + 1] = LF
                  /\ \E p \in Prefixes : First(b, Len(p)) = p /\ Len(p) < e
                  /\ CompleteLines(SubSeq(b, e + 2, Len(b)))

\* C8: what setup and each handler of the loop wrote to the serial port is a
\* run of complete lines, and nothing else the handler did falls between the
\* first and the last byte of a line.
C8_CompleteLines ==
    /\ CompleteLines(Serial)
    /\ \A i \in 1..Len(io) :
           io[i].k # "tx" => CompleteLines(SerialOf(SubSeq(io, 1, i)))

\* C8 witness: readKeypad wrote the line KEYS:11 between the two changes of
\* the backlight.
C8_Witness ==
    /\ KeyPoll
    /\ Serial = KeysLine(<<"1", "1">>)
    /\ io[1] = Light(LOW) /\ io[Len(io)] = Light(HIGH)

\* C10: with less than 2^32 ms of true time since the timestamp, a re-read of
\* the last accepted identifier is suppressed iff the true time since it was
\* accepted is under 1000 ms, and a non-empty key buffer is cleared iff the
\* true time since the last key is over 10 000 ms, also when millis() wrapped
\* in between.
C10_WrapSafe ==
    /\ (CardRead /\ ev.prev[1].card = ev.card /\ SinceAccepted[1] < W16)
           => (Serial = <<>> <=> ULLess(SinceAccepted, UL(BounceMillis)))
    /\ (KeyPoll /\ ev.count0 > 0 /\ TimeSub(ev.at, ev.stamped)[1] < W16)
           => (ev.count = 0 <=>
                 ULLess(UL(1000 * MAX_KEY_DELAY), TimeSub(ev.at, ev.stamped)))

\* millis() at time t is below millis() at the earlier time s.
Wrapped(s, t) == ULLess(millis(t), millis(s))

\* C10 witness: millis() wrapped between the acceptance of a card and its
\* re-read 1000 ms later, which was emitted, and at that moment the key
\* buffer held a key stamped before the wrap.
C10_Witness ==
    /\ CardRead /\ ev.prev[1].card = ev.card
    /\ Wrapped(ev.prev[1].at, ev.at)
    /\ SinceAccepted = UL(BounceMillis)
    /\ Serial = NfcLine(ev.card)
    /\ count > 0 /\ Wrapped(stampedAt, ev.at)

\* The handler switched the backlight off and, later, on again.
Flashed(es) ==
    \E i, j \in 1..Len(es) : i < j /\ es[i] = Light(LOW) /\ es[j] = Light(HIGH)

\* C11: a readKeypad poll that reads a key, whatever the key and the state of
\* the buffer, switches the backlight off and then on again.
C11_KeyFlashes == KeyRead => Flashed(io) /\ backlight = HIGH

\* The lines of b: the bytes before each CR LF.
RECURSIVE Lines(_)
Lines(b) ==
    LET ends == {i \in 1..(Len(b) - 1) : b[i] = CR /\ b[i + 1] = LF}
    IN  IF ends = {} THEN <<>>
        ELSE LET e == CHOOSE i \in ends : \A j \in ends : i <= j
             IN  <<SubSeq(b, 1, e - 1)>> \o Lines(SubSeq(b, e + 2, Len(b)))

DebugPrefix == <<"D", "E", "B", "U", "G", ":">>
IsDebugLine(l) == First(l, Len(DebugPrefix)) = DebugPrefix
DebugLines(b) == LET ls == Lines(b) IN {i \in 1..Len(ls) : IsDebugLine(ls[i])}
Compiled == {p \in {"card", "keypad"} : build[p]}

\* C12, as stated: setup writes as many DEBUG lines as there are peripherals
\* compiled in, and no handler of the loop writes any.
C12_OnePerPeripheral ==
    /\ ev.h = "setup" => Cardinality(DebugLines(Serial)) = Cardinality(Compiled)
    /\ ev.h # "setup" => DebugLines(Serial) = {}

\* C12, amended: setup writes the DEBUG line of the restart and then one
\* DEBUG line for each peripheral compiled in, the card reader's before the
\* keypad's, and nothing else; setup runs once, before any handler of the
\* loop; and no handler of the loop writes a DEBUG line.
C12_DebugAtSetupOnly ==
    /\ (pc = "setup") <=> (ev.h = "none")
    /\ ev.h = "setup" =>
           /\ CompleteLines(Serial)
           /\ Lines(Serial) = <<RestartedMsg>>
                               \o (IF build.card THEN <<CardEnabledMsg>> ELSE <<>>)
                               \o (IF build.keypad THEN <<KeypadEnabledMsg>> ELSE <<>>)
           /\ DebugLines(Serial) = 1..Len(Lines(Serial))
    /\ ev.h # "setup" => DebugLines(Serial) = {}

\* C12 witness: the setup of a build with the card reader and without the
\* keypad wrote two DEBUG lines.
C12_Witness ==
    /\ build.card /\ ~build.keypad
    /\ ev.h = "setup" /\ Len(Lines(Serial)) = 2

\* The last handler read the serial of the card whose serial an earlier poll
\* could not read, with no other card read in between.
Retried == CardRead /\ ev.failed = ev.card

\* C13: a readCard poll that finds no new card, or cannot read the serial of
\* the card, writes nothing, halts nothing and leaves lastUid and lastMillis
\* as they were; and the card whose serial could not be read is treated by
\* the poll that does read it like any card: emitted if no card was accepted
\* before, and, if it was the last one accepted, less than 2^32 ms ago,
\* emitted iff 1000 ms or more have passed since.
C13_FailedPollIsNoOp ==
    /\ [][(pc = "readCard" /\ ~ev'.ok)
             => /\ io' = <<>>
                /\ lastUid' = lastUid
                /\ cardLastMillis' = cardLastMillis
                /\ accepted' = accepted]_vars
    /\ [](Retried =>
             /\ ev.prev[1].card = NoCard => Serial = NfcLine(ev.card)
             /\ (ev.prev[1].card = ev.card /\ SinceAccepted[1] < W16)
                    => IF ULLess(SinceAccepted, UL(BounceMillis))
                       THEN Serial = <<>>
                       ELSE Serial = NfcLine(ev.card))

\* C13 witness: the card accepted last was presented again 1000 ms or more
\* later, its serial could not be read, and the next read of it was emitted.
C13_Witness ==
    /\ Retried /\ ev.prev[1].card = ev.card
    /\ ~ULLess(SinceAccepted, UL(BounceMillis))
    /\ Serial = NfcLine(ev.card)

\* The number of PICC_HaltA calls among the events es.
RECURSIVE Halts(_)
Halts(es) ==
    IF es = <<>> THEN 0
    ELSE (IF Head(es) = Halt THEN 1 ELSE 0) + Halts(Tail(es))

\* C14: a readCard poll that reads a card's serial halts the card exactly
\* once, whether the read is held back as a bounce or accepted; when it is
\* accepted the halt is the last thing the poll does, after the whole NFC
\* line, CR LF included, has been written.
C14_HaltOncePerRead ==
    CardRead =>
        /\ Halts(io) = 1
        /\ Serial # <<>> =>
               /\ io[Len(io)] = Halt
               /\ \A i \in 1..(Len(io) - 1) : io[i].k = "tx"
               /\ Len(Lines(Serial)) = 1
               /\ SubSeq(Serial, Len(Serial) - 1, Len(Serial)) = <<CR, LF>>
               /\ First(Serial, Len(NfcPrefix)) = NfcPrefix

\* C14 witness: a bounce was halted and wrote nothing.
C14_Witness ==
    /\ CardRead /\ ev.prev[1].card = ev.card
    /\ Serial = <<>> /\ io = <<Halt>>

\* lastUid holds the identifier of card c.
Remembers(c) ==
    /\ lastUid.size = c.size
    /\ SubSeq(lastUid.uidByte, 1, c.size) = c.bytes
    /\ lastUid.sak = c.sak

\* C15: lastUid and lastMillis change only in a readCard poll that writes an
\* NFC line, and after such a poll hold the identifier written and the time
\* of the poll; a read held back as a bounce leaves both as they were, so
\* lastMillis is always the time of the last NFC line and a re-read 1000 ms
\* or more (and less than 2^32 ms) after that line is emitted however many
\* re-reads were held back in between.
C15_ScanStateFrame ==
    /\ [][(lastUid' # lastUid \/ cardLastMillis' # cardLastMillis)
             => pc = "readCard" /\ ev'.ok /\ SerialOf(io') # <<>>]_vars
    /\ [][(pc = "readCard" /\ ev'.ok /\ SerialOf(io') = <<>>)
             => lastUid' = lastUid /\ cardLastMillis' = cardLastMillis]_vars
    /\ []((CardRead /\ Serial # <<>>)
             => /\ Serial = NfcLine(ev.card)
                /\ Remembers(ev.card)
                /\ cardLastMillis = millis(ev.at))
    /\ [](accepted[1] # NoAccept
             => Remembers(accepted[1].card) /\ cardLastMillis = millis(accepted[1].at))
    /\ []((/\ CardRead /\ ev.suppressed /\ ev.prev[1].card = ev.card
            /\ ~ULLess(SinceAccepted, UL(BounceMillis)) /\ SinceAccepted[1] < W16)
             => Serial = NfcLine(ev.card))

\* C15 witness: a card accepted at t0 was read again and held back, and its
\* read at t0 + 1200 ms was emitted.
C15_Witness ==
    /\ CardRead /\ ev.suppressed /\ ev.prev[1].card = ev.card
    /\ SinceAccepted = UL(1200)
    /\ Serial = NfcLine(ev.card)
    /\ accepted[1].at = ev.at

\* C16: a readKeypad poll that reads a key leaves lastMillis at the time it
\* returns, whether the key was '#', was stored or was dropped at capacity,
\* and a poll that reads no key leaves lastMillis as it was; so a key dropped
\* at capacity restarts the idle time of the full buffer.
C16_StampOnEveryKey ==
    /\ [][pc = "readKeypad"
             => IF ev'.key = NO_KEY THEN keyLastMillis' = keyLastMillis
                ELSE keyLastMillis' = millis(clock')]_vars
    /\ []((PlainKeyRead /\ ev.count = MAX_KEY_COUNT)
             => /\ count = MAX_KEY_COUNT
                /\ clock = ev.at
                /\ keyLastMillis = millis(ev.at))

\* C16 witness: a key read 10 000 ms after the 20th was dropped and moved
\* lastMillis to the time it was read.
C16_Witness ==
    /\ PlainKeyRead /\ ev.count0 = MAX_KEY_COUNT /\ count = MAX_KEY_COUNT
    /\ TimeSub(ev.at, ev.stamped) = UL(1000 * MAX_KEY_DELAY)
    /\ io = <<>>
    /\ keyLastMillis = millis(ev.at)

\* True time from the last recording of lastMillis to this readKeypad poll.
SinceStamped == TimeSub(ev.at, ev.stamped)

\* C17: a readKeypad poll clears the buffer at its start iff the buffer holds
\* keys and more than 10 000 ms (and less than 2^32 ms) have passed since
\* lastMillis was recorded, so not at exactly 10 000 ms; the key is read
\* after that, so a key other than '#' read by a poll that cleared the
\* buffer is stored at index 0 and is the only key the buffer holds.
C17_ClearedIffStale ==
    KeyPoll =>
        /\ ev.count0 = 0 => ev.count = 0
        /\ (ev.count0 > 0 /\ SinceStamped[1] < W16)
               => IF ULLess(UL(1000 * MAX_KEY_DELAY), SinceStamped)
                  THEN ev.count = 0
                  ELSE ev.count = ev.count0
        /\ (PlainKeyRead /\ ev.count0 > 0 /\ ev.count = 0)
               => /\ count = 1
                  /\ buffer[1] = ev.key
                  /\ ev.widx = 0
                  /\ CString(Terminate(buffer, count)) = <<ev.key>>

\* C17 witness: a poll 10 001 ms after the second key of an entry cleared
\* the buffer and stored the key it read as the only one.
C17_Witness ==
    /\ PlainKeyRead /\ ev.count0 = 2
    /\ SinceStamped = UL(1000 * MAX_KEY_DELAY + 1)
    /\ count = 1 /\ buffer[1] = ev.key /\ buffer[2] # NUL

\* C20: a readKeypad poll that reads '#' with no key in the buffer (none read
\* since power-up, since the last '#', or since the idle timeout that the
\* same poll has just applied) writes the one line KEYS: with nothing after
\* the colon and leaves the buffer empty.
C20_EmptyFlush ==
    (KeyPoll /\ ev.key = "#" /\ ev.typed = <<>>)
        => /\ Serial = KeysLine(<<>>)
           /\ Lines(Serial) = <<KeysPrefix>>
           /\ count = 0 /\ buffer[1] = NUL

\* C20 witness: '#' read by the poll that cleared a buffer of two keys on
\* idle timeout wrote the empty KEYS line.
C20_Witness ==
    /\ KeyPoll /\ ev.key = "#" /\ ev.gap
    /\ ev.count0 = 2 /\ ev.buffer[1] # NUL
    /\ Serial = KeysLine(<<>>) /\ count = 0

\* C19: the first card whose serial is read after power-up is emitted,
\* whatever its identifier (4, 7 or 10 bytes of any value, zeros included)
\* and however soon after power-up, although lastUid and lastMillis are
\* still zero then; and it becomes the last accepted identifier.
C19_FirstReadEmits ==
    (CardRead /\ ev.prev[1] = NoAccept)
        => /\ Serial = NfcLine(ev.card)
           /\ io[Len(io)] = Halt
           /\ accepted[1] = [card |-> ev.card, at |-> ev.at]
           /\ Remembers(ev.card)

\* C19 witness: an identifier of ten zero bytes, read in the first
\* millisecond after power-up, was emitted.
C19_Witness ==
    /\ CardRead /\ ev.prev[1] = NoAccept
    /\ ev.at = UL(0)
    /\ ev.card.size = 10 /\ \A i \in 1..10 : ev.card.bytes[i] = 0
    /\ Len(NfcValue(Serial)) = 20 /\ \A i \in 1..20 : NfcValue(Serial)[i] = "0"

====
